---- MODULE Spec2Model ----
(***************************************************************************)
(* geocode_csv_to_gpx.py: CSV rows -> places -> geocoded places -> GPX.    *)
(*                                                                         *)
(* Text is modelled as a sequence of one-character strings, so that        *)
(* concatenation, joining and XML escaping are computed character by       *)
(* character as the code computes them.  A CSV record is a sequence of     *)
(* column texts.  The geocoder is an external service: every call to       *)
(* geocode_address receives a response chosen nondeterministically.        *)
(* The verbose flag only adds print() calls and is not modelled; input     *)
(* files are taken to be readable and the output path writable.            *)
(***************************************************************************)
EXTENDS Integers, Sequences, FiniteSets, TLC

VARIABLES
    \* configuration (fields of GeocodeCsvToGPX)
    nfiles,            \* len(self.files)
    addr_cols,         \* self.addr_cols  (1-based column indices)
    name_cols,         \* self.name_cols
    desc_cols,         \* self.desc_cols  (<<>> models None / not given)
    skip_first_lines,  \* self.skip_first_lines (0 models None / 0)
    dryrun,            \* self.dryrun
    \* run()
    pc,                \* position of the run
    fileIdx,           \* position of `for file in self.files`
    lineno,            \* enumerate(..., start=1) counter of the open file
    filePlaces,        \* local `places` of get_places_from_csv
    places,            \* self.places
    records,           \* history: records[f] = the records read from file f
    \* get_coordinates()
    idx,               \* position of `for place in self.places`
    step,              \* position inside the loop body
    coords,            \* local `coords`
    log,               \* history: lookups issued in the current loop iteration
    failed,            \* history: some lookup of the run raised an exception
    \* write_places_to_gpx()
    outState,          \* "absent" | "closed": the output file
    out,               \* what has been written to the output file
    \* get_columns applied to one row (specification SpecColumns)
    gcCols, gcSubset, gcKind, gcResult, gcDone,
    \* xml_escape applied to one text (specification SpecEscape)
    escText, escResult, escDone

cfgVars  == <<nfiles, addr_cols, name_cols, desc_cols, skip_first_lines, dryrun>>
runVars  == <<pc, fileIdx, lineno, filePlaces, places, records>>
geoVars  == <<idx, step, coords, log, failed>>
outVars  == <<outState, out>>
pipeVars == <<cfgVars, runVars, geoVars, outVars>>
gcVars   == <<gcCols, gcSubset, gcKind, gcResult, gcDone>>
escVars  == <<escText, escResult, escDone>>
vars     == <<pipeVars, gcVars, escVars>>

----------------------------------------------------------------------------
(* Bounds of the model *)

MaxFiles   == 2   \* number of input files
MaxRecords == 3   \* records read over all input files of a run
MaxSkip    == 1   \* largest skip_first_lines
MaxCols    == 2   \* columns of a row handed to get_columns
MaxSubset  == 3   \* length of a configured column list
MaxText    == 4   \* length of a text handed to xml_escape

----------------------------------------------------------------------------
(* Text helpers *)

RECURSIVE SeqsUpTo(_, _)
\* all sequences over S of length 0..n
SeqsUpTo(S, n) ==
    IF n = 0 THEN {<<>>}
    ELSE LET shorter == SeqsUpTo(S, n - 1)
         IN  shorter \cup {Append(s, x) : s \in {t \in shorter : Len(t) = n - 1}, x \in S}

\* str.replace(ch, rep) for a one-character ch: every occurrence, left to right
RECURSIVE Replace(_, _, _)
Replace(s, ch, rep) ==
    IF s = <<>> THEN <<>>
    ELSE (IF Head(s) = ch THEN rep ELSE <<Head(s)>>) \o Replace(Tail(s), ch, rep)

----------------------------------------------------------------------------
(* xml_escape *)

AMP  == <<"&", "a", "m", "p", ";">>
GT   == <<"&", "g", "t", ";">>
LT   == <<"&", "l", "t", ";">>
APOS == <<"&", "a", "p", "o", "s", ";">>
QUOT == <<"&", "q", "u", "o", "t", ";">>

\* the replacements with "&" replaced last (escape() says "must do
\* ampersand first")
XmlEscapeAmpLast(text) ==
    Replace(Replace(Replace(Replace(Replace(text,
        ">", GT), "<", LT), "'", APOS), "\"", QUOT), "&", AMP)

\* xml_escape: escape() replaces "&", then ">", then "<", then the two
\* extra entities in dictionary order ("'" then "\"")
XmlEscape(text) ==
    Replace(Replace(Replace(Replace(Replace(text,
        "&", AMP), ">", GT), "<", LT), "'", APOS), "\"", QUOT)

----------------------------------------------------------------------------
(* get_columns / get_place_from_line *)

None == <<>>                 \* Python None, '' and [] are all falsy
Truthy(x) == x # <<>>

COMMA_SPACE == <<",", " ">>  \* ', '
SPACE       == <<" ">>       \* ' '

\* the delimiter get_place_from_line passes for each kind of field
FieldDelimiter(kind) ==
    CASE kind = "addr" -> COMMA_SPACE
      [] kind = "name" -> SPACE
      [] kind = "desc" -> COMMA_SPACE

\* cols[col] with a 0-based index; a negative index counts from the end
PyIndex(cols, col) ==
    IF col >= 0 THEN cols[col + 1] ELSE cols[Len(cols) + col + 1]

\* the loop of get_columns from position i of subset on
RECURSIVE GetColumnsLoop(_, _, _, _, _)
GetColumnsLoop(cols, subset, delimiter, i, result) ==
    IF i > Len(subset) THEN result
    ELSE LET col == subset[i] - 1
         IN  IF col >= Len(cols) THEN result          \* break
             ELSE GetColumnsLoop(cols, subset, delimiter, i + 1,
                      (result \o (IF Truthy(result) THEN delimiter ELSE <<>>))
                          \o PyIndex(cols, col))

\* the same loop with `continue` where the code has `break`
RECURSIVE GetColumnsLoopContinue(_, _, _, _, _)
GetColumnsLoopContinue(cols, subset, delimiter, i, result) ==
    IF i > Len(subset) THEN result
    ELSE LET col == subset[i] - 1
         IN  IF col >= Len(cols)
             THEN GetColumnsLoopContinue(cols, subset, delimiter, i + 1, result)
             ELSE GetColumnsLoopContinue(cols, subset, delimiter, i + 1,
                      (result \o (IF Truthy(result) THEN delimiter ELSE <<>>))
                          \o PyIndex(cols, col))

GetColumnsContinue(cols, subset, delimiter) ==
    IF ~Truthy(subset) THEN <<>>
    ELSE GetColumnsLoopContinue(cols, subset, delimiter, 1, <<>>)

GetColumns(cols, subset, delimiter) ==
    IF ~Truthy(subset) THEN <<>>
    ELSE GetColumnsLoop(cols, subset, delimiter, 1, <<>>)

\* Place(lineno=..., addr=..., name=..., desc=...); coords defaults to []
Place(n, addr, name, desc) ==
    [lineno |-> n, addr |-> addr, name |-> name, desc |-> desc, coords |-> <<>>]

\* validation with `and` where the code has `or`
GetPlaceFromLineAnd(columns, n, acols, ncols, dcols) ==
    IF Len(columns) = 0 THEN <<>>
    ELSE LET addr == GetColumns(columns, acols, COMMA_SPACE)
             name == GetColumns(columns, ncols, SPACE)
             desc == GetColumns(columns, dcols, COMMA_SPACE)
         IN  IF ~Truthy(name) /\ ~Truthy(addr) THEN <<>>
             ELSE <<Place(n, addr, name, desc)>>

\* get_place_from_line: <<>> for None, <<place>> for a place
GetPlaceFromLine(columns, n, acols, ncols, dcols) ==
    IF Len(columns) = 0 THEN <<>>
    ELSE LET addr == GetColumns(columns, acols, COMMA_SPACE)
             name == GetColumns(columns, ncols, SPACE)
             desc == GetColumns(columns, dcols, COMMA_SPACE)
         IN  IF ~Truthy(name) \/ ~Truthy(addr) THEN <<>>
             ELSE <<Place(n, addr, name, desc)>>

----------------------------------------------------------------------------
(* Inputs of a run *)

\* column texts of the input files
ADDR  == <<"a">>
NAME  == <<"n", "&">>
DESC  == <<"<", "d">>
EMPTY == <<>>

\* the records an input file can hold: a blank line, a row of two columns,
\* a row of three columns, a row whose first column is empty
Rows ==
    { <<>>, <<ADDR, NAME>>, <<ADDR, NAME, DESC>>, <<EMPTY, NAME>> }

\* column configurations (--address, --name, --desc)
ColumnConfigs ==
    { [addr |-> <<1>>, name |-> <<2>>, desc |-> <<3>>],
      [addr |-> <<2>>, name |-> <<1>>, desc |-> <<>>] }

\* coordinate pairs (longitude, latitude) the geocoder can return
CoordA == <<10, 50>>
CoordB == <<20, 60>>

\* what a request to the geocoder can bring: an exception while the request
\* is sent or the body is parsed, or a parsed body with its feature list
\* (each feature given by its geometry.coordinates)
ErrorKinds == {"transport", "parse"}
Responses ==
    { [kind |-> k, features |-> <<>>] : k \in ErrorKinds }
    \cup { [kind |-> "ok", features |-> f] : f \in {<<>>, <<CoordA>>, <<CoordB, CoordA>>} }

IsError(resp) == resp.kind \in ErrorKinds
HasCandidate(resp) == resp.kind = "ok" /\ resp.features # <<>>

----------------------------------------------------------------------------
(* geocode_address *)

\* `except urllib.error.URLError` where the code has `except Exception`
CaughtUrlError(kind) == kind = "transport"

\* `except Exception` catches every error a request can raise
Caught(kind) == TRUE

\* data['features'][-1] where the code has data['features'][0]
GeocodeAddressLast(resp) ==
    IF resp.kind = "ok" /\ Truthy(resp.features)
    THEN resp.features[Len(resp.features)]
    ELSE None

\* the value geocode_address returns when the request brings resp and any
\* exception is caught: the first feature's coordinates, or None
GeocodeAddress(resp) ==
    IF resp.kind = "ok" /\ Truthy(resp.features)
    THEN resp.features[1]
    ELSE None

\* get_coordinates asks for the address alone whatever stage 1 returned
AfterNameAddrAlways(c) == "stage2"

\* get_coordinates: `if not coords:` after the 'name, address' lookup
AfterNameAddr(c) == IF ~Truthy(c) THEN "stage2" ELSE "assign"

\* f'{place.name}, {place.addr}'
NameAddrQuery(place) == place.name \o COMMA_SPACE \o place.addr

----------------------------------------------------------------------------
(* The run *)

RECURSIVE TotalLen(_)
TotalLen(ss) == IF ss = <<>> THEN 0 ELSE Len(Head(ss)) + TotalLen(Tail(ss))

InitGc ==
    /\ gcCols = <<>> /\ gcSubset = <<>> /\ gcKind = "addr"
    /\ gcResult = <<>> /\ gcDone = FALSE

InitEsc ==
    /\ escText = <<>> /\ escResult = <<>> /\ escDone = FALSE

InitRun ==
    /\ pc = "EXTRACT" /\ fileIdx = 1 /\ lineno = 0
    /\ filePlaces = <<>> /\ places = <<>> /\ records = <<>>
    /\ idx = 1 /\ step = "stage1" /\ coords = None /\ log = <<>>
    /\ failed = FALSE
    /\ outState = "absent" /\ out = <<>>

Init ==
    /\ nfiles \in 0..MaxFiles
    /\ \E c \in ColumnConfigs :
          addr_cols = c.addr /\ name_cols = c.name /\ desc_cols = c.desc
    /\ skip_first_lines \in 0..MaxSkip
    /\ dryrun \in BOOLEAN
    /\ InitRun
    /\ InitGc
    /\ InitEsc

\* run: `for file in self.files` takes the next file; get_places_from_csv
\* opens it
OpenFile ==
    /\ pc = "EXTRACT" /\ fileIdx <= nfiles
    /\ pc' = "READ"
    /\ lineno' = 0
    /\ filePlaces' = <<>>
    /\ records' = Append(records, <<>>)
    /\ UNCHANGED <<fileIdx, places, cfgVars, geoVars, outVars, gcVars, escVars>>

\* `self.skip_first_lines and lineno <= self.skip_first_lines`
SkipLineBelow(n) == skip_first_lines # 0 /\ n < skip_first_lines

SkipLine(n) == skip_first_lines # 0 /\ n <= skip_first_lines

\* get_places_from_csv: one iteration of the loop over csv.reader
ReadRecord ==
    /\ pc = "READ"
    /\ TotalLen(records) < MaxRecords
    /\ \E columns \in Rows :
          /\ lineno' = lineno + 1
          /\ records' = [records EXCEPT ![fileIdx] = Append(@, columns)]
          /\ filePlaces' =
                IF SkipLine(lineno') THEN filePlaces
                ELSE filePlaces \o GetPlaceFromLine(columns, lineno',
                                        addr_cols, name_cols, desc_cols)
    /\ UNCHANGED <<pc, fileIdx, places, cfgVars, geoVars, outVars, gcVars, escVars>>

\* get_places_from_csv returns at the end of the file and run does
\* `self.places += ...`
EndOfFile ==
    /\ pc = "READ"
    /\ places' = places \o filePlaces
    /\ filePlaces' = <<>>
    /\ fileIdx' = fileIdx + 1
    /\ pc' = "EXTRACT"
    /\ UNCHANGED <<lineno, records, cfgVars, geoVars, outVars, gcVars, escVars>>

\* run: `if self.dryrun: return`
DryRunReturn ==
    /\ pc = "EXTRACT" /\ fileIdx > nfiles
    /\ dryrun
    /\ pc' = "DONE"
    /\ UNCHANGED <<fileIdx, lineno, filePlaces, places, records,
                   cfgVars, geoVars, outVars, gcVars, escVars>>

\* run calls get_coordinates whatever self.dryrun is
GetCoordinatesAlways ==
    /\ pc = "EXTRACT" /\ fileIdx > nfiles
    /\ pc' = "RESOLVE"
    /\ idx' = 1 /\ step' = "stage1" /\ coords' = None
    /\ UNCHANGED <<fileIdx, lineno, filePlaces, places, records, log, failed,
                   cfgVars, outVars, gcVars, escVars>>

\* run: self.get_coordinates() is reached when dryrun is not set
GetCoordinates ==
    /\ pc = "EXTRACT" /\ fileIdx > nfiles
    /\ ~dryrun
    /\ pc' = "RESOLVE"
    /\ idx' = 1 /\ step' = "stage1" /\ coords' = None
    /\ UNCHANGED <<fileIdx, lineno, filePlaces, places, records, log, failed,
                   cfgVars, outVars, gcVars, escVars>>

\* an exception no handler catches leaves get_coordinates and run
Raise ==
    /\ pc' = "ABORTED"
    /\ UNCHANGED <<idx, step, coords>>

\* get_coordinates: coords = self.geocode_address(f'{place.name}, {place.addr}')
GeocodeNameAddr ==
    /\ pc = "RESOLVE" /\ idx <= Len(places) /\ step = "stage1"
    /\ \E resp \in Responses :
          /\ log' = <<[place |-> idx, query |-> NameAddrQuery(places[idx]),
                       resp |-> resp]>>
          /\ failed' = (failed \/ IsError(resp))
          /\ IF IsError(resp) /\ ~Caught(resp.kind) THEN Raise
             ELSE /\ coords' = GeocodeAddress(resp)
                  /\ step' = AfterNameAddr(coords')
                  /\ UNCHANGED <<pc, idx>>
    /\ UNCHANGED <<fileIdx, lineno, filePlaces, places, records,
                   cfgVars, outVars, gcVars, escVars>>

\* get_coordinates: `if not coords: coords = self.geocode_address(place.addr)`
GeocodeAddrOnly ==
    /\ pc = "RESOLVE" /\ idx <= Len(places) /\ step = "stage2"
    /\ \E resp \in Responses :
          /\ log' = Append(log, [place |-> idx, query |-> places[idx].addr,
                                 resp |-> resp])
          /\ failed' = (failed \/ IsError(resp))
          /\ IF IsError(resp) /\ ~Caught(resp.kind) THEN Raise
             ELSE /\ coords' = GeocodeAddress(resp)
                  /\ step' = "assign"
                  /\ UNCHANGED <<pc, idx>>
    /\ UNCHANGED <<fileIdx, lineno, filePlaces, places, records,
                   cfgVars, outVars, gcVars, escVars>>

\* get_coordinates: `if not coords: print(...); continue` or
\* `place.coords = coords`, then the next place
FinishPlace ==
    /\ pc = "RESOLVE" /\ idx <= Len(places) /\ step = "assign"
    /\ places' = IF ~Truthy(coords) THEN places
                 ELSE [places EXCEPT ![idx].coords = coords]
    /\ idx' = idx + 1
    /\ step' = "stage1"
    /\ coords' = None      \* dead until the next iteration assigns it
    /\ log' = <<>>
    /\ UNCHANGED <<pc, fileIdx, lineno, filePlaces, records, failed,
                   cfgVars, outVars, gcVars, escVars>>

----------------------------------------------------------------------------
(* write_places_to_gpx *)

HEADER  == <<"header">>    \* the XML declaration and '<gpx version="1.1">'
TRAILER == <<"trailer">>   \* '</gpx>'

\* the <desc> element written whether or not place.desc is empty
WaypointDescAlways(place) ==
    <<"wpt", place.coords[1], place.coords[2], XmlEscape(place.name),
      <<XmlEscape(place.desc)>> >>

\* the lines written for one place: <wpt lon= lat=>, <name>, the <desc>
\* elements (none or one), </wpt>
Waypoint(place) ==
    <<"wpt", place.coords[1], place.coords[2], XmlEscape(place.name),
      IF Truthy(place.desc) THEN <<XmlEscape(place.desc)>> ELSE <<>> >>

WrittenFor(place) ==
    IF ~Truthy(place.coords) THEN <<>>     \* continue
    ELSE <<Waypoint(place)>>

\* what the loop over self.places writes from position i on
RECURSIVE WrittenFrom(_, _)
WrittenFrom(ps, i) ==
    IF i > Len(ps) THEN <<>>
    ELSE WrittenFor(ps[i]) \o WrittenFrom(ps, i + 1)

\* get_coordinates has gone through self.places and returned; run calls
\* write_places_to_gpx, which opens the file, writes the header, the
\* waypoints and the trailer, and closes the file; run returns
WritePlacesToGpx ==
    /\ pc = "RESOLVE" /\ idx > Len(places)
    /\ out' = (<<HEADER>> \o WrittenFrom(places, 1)) \o <<TRAILER>>
    /\ outState' = "closed"
    /\ pc' = "DONE"
    /\ UNCHANGED <<fileIdx, lineno, filePlaces, places, records,
                   cfgVars, geoVars, gcVars, escVars>>

Next ==
    \/ OpenFile
    \/ ReadRecord
    \/ EndOfFile
    \/ DryRunReturn
    \/ GetCoordinates
    \/ GeocodeNameAddr
    \/ GeocodeAddrOnly
    \/ FinishPlace
    \/ WritePlacesToGpx

Spec == Init /\ [][Next]_vars

----------------------------------------------------------------------------
(* get_columns on its own: every row and column list within the bounds *)

Texts == {<<>>, <<"a">>, <<"b">>}

InitColumns ==
    /\ gcCols \in SeqsUpTo(Texts, MaxCols)
    /\ gcSubset \in SeqsUpTo(1..(MaxCols + 1), MaxSubset)
    /\ gcKind \in {"addr", "name", "desc"}
    /\ gcResult = <<>> /\ gcDone = FALSE
    /\ nfiles = 0 /\ addr_cols = <<>> /\ name_cols = <<>> /\ desc_cols = <<>>
    /\ skip_first_lines = 0 /\ dryrun = FALSE
    /\ InitRun
    /\ InitEsc

\* get_place_from_line: self.get_columns(columns, self.<kind>_cols, delimiter)
CallGetColumns ==
    /\ ~gcDone
    /\ gcResult' = GetColumns(gcCols, gcSubset, FieldDelimiter(gcKind))
    /\ gcDone' = TRUE
    /\ UNCHANGED <<gcCols, gcSubset, gcKind, pipeVars, escVars>>

NextColumns == CallGetColumns

SpecColumns == InitColumns /\ [][NextColumns]_vars

----------------------------------------------------------------------------
(* xml_escape on its own: every text within the bounds *)

EscChars == {"&", "<", ">", "'", "\"", "l", "t", ";"}

InitEscape ==
    /\ escText \in SeqsUpTo(EscChars, MaxText)
    /\ escResult = <<>> /\ escDone = FALSE
    /\ nfiles = 0 /\ addr_cols = <<>> /\ name_cols = <<>> /\ desc_cols = <<>>
    /\ skip_first_lines = 0 /\ dryrun = FALSE
    /\ InitRun
    /\ InitGc

\* write_places_to_gpx: self.xml_escape(place.name) / (place.desc)
CallXmlEscape ==
    /\ ~escDone
    /\ escResult' = XmlEscape(escText)
    /\ escDone' = TRUE
    /\ UNCHANGED <<escText, pipeVars, gcVars>>

NextEscape == CallXmlEscape

SpecEscape == InitEscape /\ [][NextEscape]_vars

----------------------------------------------------------------------------
(* Reference definitions used by the properties *)

Range(f) == {f[i] : i \in DOMAIN f}

\* the coordinates the two-stage rule prescribes for the lookups l issued
\* for one place
ExpectedCoords(l) ==
    IF Len(l) >= 1 /\ HasCandidate(l[1].resp) THEN l[1].resp.features[1]
    ELSE IF Len(l) >= 2 /\ HasCandidate(l[2].resp) THEN l[2].resp.features[1]
    ELSE <<>>

AllPlaces == places \o filePlaces

\* the three fields of every record under every column configuration
\* (a table, so that it is computed once)
FieldsTable ==
    [c \in ColumnConfigs |->
        [row \in Rows |->
            [addr |-> GetColumns(row, c.addr, COMMA_SPACE),
             name |-> GetColumns(row, c.name, SPACE),
             desc |-> GetColumns(row, c.desc, COMMA_SPACE)]]]

Fields(row) ==
    FieldsTable[[addr |-> addr_cols, name |-> name_cols, desc |-> desc_cols]][row]

ExtractedName(row) == Fields(row).name
ExtractedAddr(row) == Fields(row).addr
ExtractedDesc(row) == Fields(row).desc

\* a non-empty record without a name or without an address
Rejected(row) ==
    row # <<>> /\ (ExtractedName(row) = <<>> \/ ExtractedAddr(row) = <<>>)

\* the records that are to become places: <<file, line>> positions
ValidPositions ==
    UNION { { <<f, k>> : k \in { n \in 1..Len(records[f]) :
                                   /\ n > skip_first_lines
                                   /\ records[f][n] # <<>>
                                   /\ ~Rejected(records[f][n]) } }
            : f \in 1..Len(records) }

\* the places of the records k.. of one file, in line order
RECURSIVE PlacesOfFile(_, _)
PlacesOfFile(recs, k) ==
    IF k > Len(recs) THEN <<>>
    ELSE (IF k > skip_first_lines /\ recs[k] # <<>> /\ ~Rejected(recs[k])
          THEN <<[lineno |-> k, addr |-> ExtractedAddr(recs[k]),
                  name |-> ExtractedName(recs[k]), desc |-> ExtractedDesc(recs[k])]>>
          ELSE <<>>)
         \o PlacesOfFile(recs, k + 1)

\* the places of the files f.. in file order
RECURSIVE PlacesOfFiles(_)
PlacesOfFiles(f) ==
    IF f > Len(records) THEN <<>>
    ELSE PlacesOfFile(records[f], 1) \o PlacesOfFiles(f + 1)

WithoutCoords(ps) ==
    [i \in 1..Len(ps) |-> [lineno |-> ps[i].lineno, addr |-> ps[i].addr,
                           name |-> ps[i].name, desc |-> ps[i].desc]]

HasCoords(p) == p.coords # <<>>

ExtractionDone == fileIdx = nfiles + 1 /\ Len(records) = nfiles /\ filePlaces = <<>>

\* the run is reading its input files or has just finished reading them
Extracting ==
    \/ pc \in {"EXTRACT", "READ"}
    \/ pc = "RESOLVE" /\ idx = 1 /\ step = "stage1"

\* a step after extraction leaves the records read and the places' line
\* numbers, addresses, names and descriptions as they are
PlacesKept ==
    pc \notin {"EXTRACT", "READ"} =>
        /\ records' = records
        /\ Len(places') = Len(places)
        /\ \A j \in 1..Len(places) :
              /\ places'[j].lineno = places[j].lineno
              /\ places'[j].addr = places[j].addr
              /\ places'[j].name = places[j].name
              /\ places'[j].desc = places[j].desc

----------------------------------------------------------------------------
(* Properties of the run *)

\* C1: when get_coordinates finishes a place, the place's coordinates are
\* the first candidate's pair of the "name, address" lookup if that lookup
\* returned a candidate, otherwise the first candidate's pair of the
\* address-only lookup if that returned a candidate, otherwise empty; the
\* pair is stored as returned (longitude, latitude); the coordinates of no
\* other place change in that step or in any other step.
C1_CoordinatesStep ==
    \A j \in 1..Len(places) :
        IF pc = "RESOLVE" /\ step = "assign" /\ j = idx /\ idx' = idx + 1
        THEN /\ Len(log) >= 1
             /\ log[1].query = places[j].name \o <<",", " ">> \o places[j].addr
             /\ Len(log) >= 2 => log[2].query = places[j].addr
             /\ ~HasCandidate(log[1].resp) => Len(log) = 2
             /\ places'[j].coords = ExpectedCoords(log)
        ELSE /\ Len(places') >= Len(places)
             /\ places'[j].coords = places[j].coords

C1_TwoStageCoordinates == [][C1_CoordinatesStep]_vars

\* a place resolved by its "name, address" lookup and the next place resolved
\* by the fallback lookup, about to be stored
C1_Witness ==
    /\ pc = "RESOLVE" /\ idx = 2 /\ step = "assign"
    /\ places[1].coords = CoordA
    /\ Len(log) = 2 /\ IsError(log[1].resp)
    /\ log[2].resp.features = <<CoordB, CoordA>>
    /\ coords = CoordB

\* C2: an exception raised by a lookup is handled like a lookup without
\* candidates: the run is never aborted, an exception in the "name, address"
\* lookup is followed by the address-only lookup for the same place, a
\* lookup that raised yields no coordinates, and a run in which a lookup
\* raised still goes through all places and writes the whole output file.
C2_ErrorsAreMisses ==
    /\ pc # "ABORTED"
    /\ failed => pc \in {"RESOLVE", "DONE"}
    /\ (pc = "RESOLVE" /\ Len(log) >= 1 /\ IsError(log[1].resp)) =>
          \/ step = "stage2" /\ Len(log) = 1 /\ coords = <<>>
          \/ /\ step = "assign" /\ Len(log) = 2
             /\ log[2].place = log[1].place
             /\ log[2].query = places[idx].addr
    /\ (pc = "RESOLVE" /\ step = "assign" /\ IsError(log[Len(log)].resp)) =>
          coords = <<>>
    /\ (failed /\ pc = "DONE") =>
          /\ idx = Len(places) + 1
          /\ outState = "closed"
          /\ out[1] = HEADER /\ out[Len(out)] = TRAILER

\* a finished run whose first place got no coordinates, with a lookup that
\* raised, and whose second place was resolved and written
C2_Witness ==
    /\ failed /\ pc = "DONE" /\ outState = "closed"
    /\ Len(places) = 2
    /\ places[1].coords = <<>> /\ places[2].coords = CoordA
    /\ Len(out) = 3

\* C3: with dryrun set the run never enters get_coordinates or
\* write_places_to_gpx: no lookup is issued, the output file is never opened
\* or written, and the run is done once all input files have been extracted.
C3_DryRunStopsAfterExtraction ==
    dryrun =>
        /\ pc \in {"EXTRACT", "READ", "DONE"}
        /\ log = <<>> /\ ~failed /\ idx = 1 /\ step = "stage1"
        /\ outState = "absent" /\ out = <<>>
        /\ \A i \in 1..Len(places) : places[i].coords = <<>>
        /\ pc = "DONE" => ExtractionDone

\* a finished dry run over two files with places
C3_Witness ==
    /\ dryrun /\ pc = "DONE" /\ nfiles = 2
    /\ Len(records[1]) >= 1 /\ Len(records[2]) >= 1
    /\ Len(places) >= 2

\* C4 (states): every place has a name and an address; while the files are
\* read and when they have been read there are exactly as many places as
\* records that are not skipped, empty or rejected (so a rejected record is
\* no place and stops nothing); every lookup asks for a place of the
\* collection and no more waypoints are written than places have coordinates.
C4_OnlyValidPlaces ==
    /\ \A i \in 1..Len(AllPlaces) :
          AllPlaces[i].name # <<>> /\ AllPlaces[i].addr # <<>>
    /\ Extracting => Len(AllPlaces) = Cardinality(ValidPositions)
    /\ \A i \in 1..Len(log) :
          /\ log[i].place \in 1..Len(places)
          /\ log[i].query \in {NameAddrQuery(places[log[i].place]),
                               places[log[i].place].addr}
    /\ out # <<>> => Len(out) <= Len(SelectSeq(places, HasCoords)) + 2

\* C4: a non-empty record without a name or without an address is never
\* added to the collection, so it is never looked up and never written, and
\* the records after it are still extracted; after extraction the collection
\* keeps its places.
C4_RejectedNeverPlaces ==
    /\ []C4_OnlyValidPlaces
    /\ [][PlacesKept]_vars

\* a finished run whose first file holds a rejected record followed by a
\* valid one, and whose second file holds a valid one
C4_Witness ==
    /\ pc = "DONE" /\ ~dryrun /\ skip_first_lines = 0
    /\ Len(records) = 2
    /\ Len(records[1]) = 2 /\ Len(records[2]) = 1
    /\ Rejected(records[1][1])
    /\ Len(places) = 2
    /\ places[1].lineno = 2 /\ places[2].lineno = 1
    /\ Len(out) = 4

\* C5: the written document is the header, then one waypoint entry for each
\* place that has coordinates and none for a place without, in the order of
\* the collection, then the trailer; an entry carries the place's longitude
\* and latitude and escaped name, and has a description element exactly when
\* the place's description is not empty.
C5_DocumentIsResolvedPlaces ==
    (pc = "DONE" /\ ~dryrun) =>
        LET resolved == SelectSeq(places, HasCoords)
        IN  /\ outState = "closed"
            /\ Len(out) = Len(resolved) + 2
            /\ out[1] = <<"header">>
            /\ out[Len(out)] = <<"trailer">>
            /\ \A i \in 1..Len(resolved) :
                  LET e == out[i + 1]
                      p == resolved[i]
                  IN  /\ Len(e) = 5
                      /\ e[1] = "wpt"
                      /\ e[2] = p.coords[1] /\ e[3] = p.coords[2]
                      /\ e[4] = XmlEscape(p.name)
                      /\ (e[5] # <<>>) <=> (p.desc # <<>>)
                      /\ e[5] # <<>> => e[5] = <<XmlEscape(p.desc)>>

\* a document of two entries, the first with and the second without a
\* description, written for three places of which the second has no
\* coordinates
C5_Witness ==
    /\ pc = "DONE" /\ ~dryrun
    /\ Len(places) = 3
    /\ places[1].coords = CoordB /\ places[1].desc # <<>>
    /\ places[2].coords = <<>>
    /\ places[3].coords = CoordA /\ places[3].desc = <<>>
    /\ Len(out) = 4
    /\ out[2][5] # <<>> /\ out[3][5] = <<>>

\* C8 (states): while the files are read and when they have been read, the
\* collection holds the valid places of the first file, then those of the
\* second, and so on, each file's places in line order, a place's line number
\* being the 1-based position of its record in its own file, counted over all
\* records of that file and restarting at 1 for each file; no place has a
\* line number <= skip_first_lines.
C8_PlacesOfRecords ==
    /\ Extracting => WithoutCoords(AllPlaces) = PlacesOfFiles(1)
    /\ \A i \in 1..Len(AllPlaces) : AllPlaces[i].lineno > skip_first_lines
    /\ pc \notin {"EXTRACT", "READ"} => (ExtractionDone /\ AllPlaces = places)

\* C8: after extraction the collection holds the places of the files in
\* file-argument order with per-file line numbers, and keeps them to the end
\* of the run.
C8_FileOrderAndLineNumbers ==
    /\ []C8_PlacesOfRecords
    /\ [][PlacesKept]_vars

\* two files extracted without skipping: a rejected record counts as a line
\* and the numbering restarts with the second file
C8_Witness ==
    /\ pc = "RESOLVE" /\ skip_first_lines = 0
    /\ Len(records) = 2
    /\ Len(records[1]) = 2 /\ Len(records[2]) = 1
    /\ Rejected(records[1][1])
    /\ Len(places) = 2
    /\ places[1].lineno = 2 /\ places[2].lineno = 1

\* C10 (states): lookups are issued only when every input file has been
\* extracted; the lookups of an iteration are for the place at idx, at most
\* two, the "name, address" query first and the address-only query only after
\* the first one brought no candidate; places not yet reached have no
\* coordinates; the output file is written only after the last place, and
\* the run that has written it is DONE.
C10_StageOrder ==
    /\ (pc = "RESOLVE" \/ log # <<>> \/ outState # "absent")
          => ExtractionDone
    /\ log # <<>> => pc = "RESOLVE" /\ idx <= Len(places)
    /\ Len(log) <= 2
    /\ \A i \in 1..Len(log) : log[i].place = idx
    /\ Len(log) >= 1 => log[1].query = NameAddrQuery(places[idx])
    /\ Len(log) = 2 =>
          /\ ~HasCandidate(log[1].resp)
          /\ log[2].query = places[idx].addr
    /\ (step = "assign" /\ HasCandidate(log[1].resp)) => Len(log) = 1
    /\ step = "stage1" => log = <<>>
    /\ step = "stage2" => Len(log) = 1
    /\ pc \in {"EXTRACT", "READ", "RESOLVE"} =>
          \A j \in 1..Len(places) :
              (pc # "RESOLVE" \/ j >= idx) => places[j].coords = <<>>
    /\ outState # "absent" => (pc = "DONE" /\ idx = Len(places) + 1)
    /\ (pc = "DONE" /\ ~dryrun) => outState = "closed"

\* C10 (steps): places are taken in collection order, one lookup is issued at
\* a time, a place's coordinates are assigned only by the step that finishes
\* the place and never change once set, the position of the run only moves
\* forward, and the step that writes the output file ends the run.
C10_Step ==
    /\ idx' \in {idx, idx + 1, 1}
    /\ idx' = idx + 1 => (pc = "RESOLVE" /\ step = "assign")
    /\ (idx' = 1 /\ idx # 1) => FALSE
    /\ Len(log') <= Len(log) + 1
    /\ \A j \in 1..Len(places) :
          /\ places[j].coords # <<>> => places'[j].coords = places[j].coords
          /\ places'[j].coords # places[j].coords =>
                (pc = "RESOLVE" /\ step = "assign" /\ j = idx)
    /\ pc' # pc =>
          <<pc, pc'>> \in { <<"EXTRACT", "READ">>, <<"READ", "EXTRACT">>,
                            <<"EXTRACT", "DONE">>, <<"EXTRACT", "RESOLVE">>,
                            <<"RESOLVE", "DONE">> }
    /\ (pc = "EXTRACT" /\ pc' = "DONE") => dryrun
    /\ (pc = "EXTRACT" /\ pc' = "RESOLVE") => ~dryrun
    /\ outState' # outState => (idx = Len(places) + 1 /\ pc' = "DONE")

\* C10: in a run without dryrun the stages are strictly ordered, places are
\* resolved one at a time without retries, coordinates are assigned at most
\* once, and the output file is written by the step that ends the run.
C10_SequentialPipeline ==
    /\ []C10_StageOrder
    /\ [][C10_Step]_vars

\* a finished run over two files that resolved both its places and wrote
\* the output
C10_Witness ==
    /\ pc = "DONE" /\ ~dryrun /\ nfiles = 2
    /\ Len(records[1]) = 1 /\ Len(records[2]) = 1
    /\ Len(places) = 2 /\ idx = 3
    /\ places[1].coords = CoordA /\ places[2].coords = CoordB
    /\ outState = "closed" /\ Len(out) = 4

----------------------------------------------------------------------------
(* Properties of get_columns *)

\* the parts joined with the delimiter between every two consecutive parts
RECURSIVE Join(_, _)
Join(parts, delimiter) ==
    IF parts = <<>> THEN <<>>
    ELSE IF Len(parts) = 1 THEN parts[1]
    ELSE (parts[1] \o delimiter) \o Join(Tail(parts), delimiter)

InRange(i) == i >= 1 /\ i <= Len(gcCols)

\* position in gcSubset of the first index that is out of range for gcCols
\* (Len(gcSubset) + 1 if there is none)
FirstOutOfRange ==
    IF \A i \in 1..Len(gcSubset) : InRange(gcSubset[i]) THEN Len(gcSubset) + 1
    ELSE CHOOSE k \in 1..Len(gcSubset) :
            /\ ~InRange(gcSubset[k])
            /\ \A i \in 1..(k - 1) : InRange(gcSubset[i])

\* C6: when all configured indices are in range, the field is the texts of
\* the selected columns, in configured order, joined with the field's
\* delimiter, a delimiter standing between every two consecutive parts.
C6_JoinedWithDelimiter ==
    (gcDone /\ FirstOutOfRange = Len(gcSubset) + 1) =>
        gcResult = Join([i \in 1..Len(gcSubset) |-> gcCols[gcSubset[i]]],
                        IF gcKind = "name" THEN <<" ">> ELSE <<",", " ">>)

\* C7: when some configured index is out of range for the row, the field is
\* what the indices before the first such index yield: the column named by
\* that index and the columns named by later indices contribute nothing, and
\* the field is part of what the same list yields for a row long enough.
C7_TruncatedAtFirstOutOfRange ==
    (gcDone /\ FirstOutOfRange <= Len(gcSubset)) =>
        LET kept  == SubSeq(gcSubset, 1, FirstOutOfRange - 1)
            delim == IF gcKind = "name" THEN <<" ">> ELSE <<",", " ">>
        IN  /\ gcResult = GetColumns(gcCols, kept, delim)
            /\ kept = <<>> => gcResult = <<>>
            /\ Len(kept) = 1 => gcResult = gcCols[kept[1]]
            /\ \A other \in Texts :
                  \A later \in 1..Len(gcCols) :
                      (\A i \in 1..Len(kept) : kept[i] # later) =>
                          GetColumns([gcCols EXCEPT ![later] = other],
                                     gcSubset, delim) = gcResult

\* a row of two columns with the list 3, 1: the in-range index 1 after the
\* out-of-range index 3 contributes nothing
C7_Witness ==
    /\ gcDone
    /\ gcCols = <<<<"a">>, <<"b">>>>
    /\ gcSubset = <<3, 1>>
    /\ gcResult = <<>>

----------------------------------------------------------------------------
(* Properties of xml_escape *)

StartsWith(s, prefix) ==
    Len(s) >= Len(prefix) /\ SubSeq(s, 1, Len(prefix)) = prefix

Entities ==
    { [text |-> <<"&", "a", "m", "p", ";">>,           char |-> "&"],
      [text |-> <<"&", "l", "t", ";">>,                char |-> "<"],
      [text |-> <<"&", "g", "t", ";">>,                char |-> ">"],
      [text |-> <<"&", "a", "p", "o", "s", ";">>,      char |-> "'"],
      [text |-> <<"&", "q", "u", "o", "t", ";">>,      char |-> "\""] }

\* decoding of the five entities, left to right in one pass
RECURSIVE Decode(_)
Decode(s) ==
    IF s = <<>> THEN <<>>
    ELSE IF \E e \in Entities : StartsWith(s, e.text)
         THEN LET e == CHOOSE x \in Entities : StartsWith(s, x.text)
              IN  <<e.char>> \o Decode(SubSeq(s, Len(e.text) + 1, Len(s)))
         ELSE <<Head(s)>> \o Decode(Tail(s))

\* C9: the escaped text holds no raw < > ' ", every & in it starts one of the
\* five entities, and decoding the entities gives back the original text.
C9_EscapeRoundTrip ==
    escDone =>
        /\ \A i \in 1..Len(escResult) : escResult[i] \notin {"<", ">", "'", "\""}
        /\ \A i \in 1..Len(escResult) :
              escResult[i] = "&" =>
                 \E e \in Entities :
                     StartsWith(SubSeq(escResult, i, Len(escResult)), e.text)
        /\ Decode(escResult) = escText

\* a text that already reads like an entity
C9_Witness ==
    /\ escDone
    /\ escText = <<"&", "l", "t", ";">>
    /\ escResult = <<"&", "a", "m", "p", ";", "l", "t", ";">>

====
